---- MODULE Spec2Model ----
(***************************************************************************)
(* A model of sql-gen-for-ai: the fluent query builder DynamicSQLBuilder,  *)
(* the template engine SQLTemplateEngine and the variation generators of   *)
(* advanced_sql_generator.py and sql_generator.py.                         *)
(*                                                                         *)
(* Python strings are TLA+ strings (TLC evaluates \o, Len and SubSeq on    *)
(* them), Python lists are sequences, and an optional value (an argument   *)
(* with default None, or the 'limit' entry) is None == <<>> or <<value>>.  *)
(***************************************************************************)
EXTENDS Integers, Sequences, FiniteSets, TLC

\* ------------------------------------------------------------------------
\* Bounds of the model
\* ------------------------------------------------------------------------

\* mutator calls on the builder since the last reset
MaxCalls == 5

\* ------------------------------------------------------------------------
\* Python values
\* ------------------------------------------------------------------------

None == <<>>

Some(x) == <<x>>

\* a parameter's value: the argument when one is given, the default otherwise
OrDefault(arg, default) == IF arg = None THEN default ELSE arg[1]

\* truth value of an optional string: None and '' are false
TruthyOptStr(o) == o # None /\ o[1] # ""

\* truth value of an optional int: None and 0 are false
TruthyOptInt(o) == o # None /\ o[1] # 0

Digit(d) == SubSeq("0123456789", d + 1, d + 1)

RECURSIVE NatStr(_)
NatStr(n) == IF n < 10 THEN Digit(n) ELSE NatStr(n \div 10) \o Digit(n % 10)

\* str(n), as an f-string formats an int
IntStr(n) == IF n < 0 THEN "-" \o NatStr(0 - n) ELSE NatStr(n)

RECURSIVE StrJoin(_, _)
\* sep.join(xs)
StrJoin(sep, xs) ==
    IF xs = <<>> THEN ""
    ELSE IF Len(xs) = 1 THEN xs[1]
    ELSE xs[1] \o sep \o StrJoin(sep, Tail(xs))

\* Python's "a or b" on strings
StrOr(a, b) == IF a # "" THEN a ELSE b

\* ------------------------------------------------------------------------
\* Text helpers for the properties
\* ------------------------------------------------------------------------

\* sub occurs in s
Contains(s, sub) ==
    \E i \in 1..(Len(s) - Len(sub) + 1) : SubSeq(s, i, i + Len(sub) - 1) = sub

EndsWith(s, sub) ==
    Len(sub) <= Len(s) /\ SubSeq(s, Len(s) - Len(sub) + 1, Len(s)) = sub

\* ------------------------------------------------------------------------
\* State
\* ------------------------------------------------------------------------

VARIABLES
    query_parts,    \* DynamicSQLBuilder.query_parts
    built,          \* what the last call returned when it was build(), None otherwise
    calls,          \* history: the arguments of the mutator calls since the last reset
    lastOp,         \* history: the kind of the last call, "error" when it raised
    dropped,        \* history: the number of mutator calls the last reset discarded
    templates,      \* SQLTemplateEngine.templates: name -> pattern
    added,          \* history: name -> the pattern of the last add_template for it
    tcall,          \* history: the last call on the template engine
    tresult,        \* what that call returned or raised
    vcall,          \* history: the last call on a variation generator
    vresult         \* what that call returned or raised

bvars == <<query_parts, built, calls, lastOp, dropped>>

tvars == <<templates, added, tcall, tresult>>

gvars == <<vcall, vresult>>

vars == <<bvars, tvars, gvars>>

\* DynamicSQLBuilder.__init__
NewQueryParts ==
    [ select   |-> <<>>,
      from     |-> "",
      joins    |-> <<>>,
      where    |-> <<>>,
      group_by |-> <<>>,
      having   |-> <<>>,
      order_by |-> <<>>,
      limit    |-> None ]

NoCalls ==
    [ select |-> <<>>, from_table |-> <<>>, join |-> <<>>, where |-> <<>>,
      group_by |-> <<>>, having |-> <<>>, order_by |-> <<>>, limit |-> <<>> ]

NumCalls ==
    Len(calls.select) + Len(calls.from_table) + Len(calls.join) + Len(calls.where)
        + Len(calls.group_by) + Len(calls.having) + Len(calls.order_by)
        + Len(calls.limit)

\* SQLTemplateEngine.__init__
BuiltinTemplates ==
    [ basic_select      |-> "SELECT $columns FROM $table",
      filtered_select   |-> "SELECT $columns FROM $table WHERE $conditions",
      joined_select     |-> "SELECT $columns FROM $table $joins WHERE $conditions",
      aggregated_select |-> "SELECT $group_columns, $aggregates FROM $table GROUP BY $group_columns",
      paginated_select  |-> "SELECT $columns FROM $table ORDER BY $order_by LIMIT $limit OFFSET $offset",
      basic_insert      |-> "INSERT INTO $table ($columns) VALUES ($values)",
      bulk_insert       |-> "INSERT INTO $table ($columns) VALUES $value_sets",
      insert_select     |-> "INSERT INTO $table ($columns) SELECT $select_columns FROM $source_table WHERE $conditions",
      basic_update      |-> "UPDATE $table SET $assignments WHERE $conditions",
      joined_update     |-> "UPDATE $table $joins SET $assignments WHERE $conditions",
      basic_delete      |-> "DELETE FROM $table WHERE $conditions",
      joined_delete     |-> "DELETE $table FROM $table $joins WHERE $conditions",
      create_table      |-> "CREATE TABLE $table ($column_definitions)",
      create_index      |-> "CREATE INDEX $index_name ON $table ($columns)" ]

NoCall == [op |-> "none", name |-> "", pattern |-> "", variables |-> [k \in {} |-> ""]]

NoResult == [raised |-> None, value |-> None]

Init ==
    /\ query_parts = NewQueryParts
    /\ built = None
    /\ calls = NoCalls
    /\ lastOp = "init"
    /\ dropped = 0
    /\ templates = BuiltinTemplates
    /\ added = [n \in {} |-> ""]
    /\ tcall = NoCall
    /\ tresult = NoResult
    /\ vcall = [op |-> "none", args |-> <<>>]
    /\ vresult = NoResult

\* ------------------------------------------------------------------------
\* The builder's operations, as functions of the state
\* ------------------------------------------------------------------------

\* select() that keeps the columns of the last call only
select_replace(qp, columns) == [qp EXCEPT !.select = columns]

\* select(*columns): query_parts['select'].extend(columns)
select(qp, columns) == [qp EXCEPT !.select = @ \o columns]

\* from_table() that adds the table to the ones already given
from_table_accumulate(qp, table, alias) ==
    LET ref == IF TruthyOptStr(alias) THEN table \o " " \o alias[1] ELSE table
    IN  [qp EXCEPT !.from = IF @ = "" THEN ref ELSE @ \o ", " \o ref]

\* from_table(table, alias=None)
from_table(qp, table, alias) ==
    [qp EXCEPT !.from = IF TruthyOptStr(alias) THEN table \o " " \o alias[1] ELSE table]

\* join(table, on_condition, join_type='INNER', alias=None)
join(qp, table, on_condition, join_type, alias) ==
    LET table_ref == IF TruthyOptStr(alias) THEN table \o " " \o alias[1] ELSE table
    IN  [qp EXCEPT !.joins =
            Append(@, OrDefault(join_type, "INNER") \o " JOIN " \o table_ref
                          \o " ON " \o on_condition)]

\* the methods the class DynamicSQLBuilder defines
Methods ==
    { "__init__", "select", "from_table", "join", "where", "group_by", "order_by",
      "limit", "build", "reset" }

\* builder.<name>: the attribute lookup of a method call; no __getattr__ is defined,
\* so a name outside the class raises
getattr(name) == IF name \in Methods THEN None ELSE Some("AttributeError")

\* builder.having(condition): the call ends in the lookup of the name, before any
\* assignment to query_parts
having(qp, condition) == qp

\* where() with the fragment put in front of the list
where_prepend(qp, condition) == [qp EXCEPT !.where = <<condition>> \o @]

\* where(condition)
where(qp, condition) == [qp EXCEPT !.where = Append(@, condition)]

\* group_by(*columns)
group_by(qp, columns) == [qp EXCEPT !.group_by = @ \o columns]

\* order_by(column, direction='ASC')
order_by(qp, column, direction) ==
    [qp EXCEPT !.order_by = Append(@, column \o " " \o OrDefault(direction, "ASC"))]

\* limit(count, offset=None)
limit(qp, count, offset) ==
    LET base == "LIMIT " \o IntStr(count)
    IN  [qp EXCEPT !.limit =
            Some(IF TruthyOptInt(offset) THEN base \o " OFFSET " \o IntStr(offset[1])
                 ELSE base)]

\* build() with the ORDER BY block placed before the WHERE block
BuildParts_order_first(qp) ==
    <<"SELECT " \o StrOr(StrJoin(", ", qp.select), "*")>>
    \o (IF qp.from # "" THEN <<"FROM " \o qp.from>> ELSE <<>>)
    \o (IF qp.joins # <<>> THEN qp.joins ELSE <<>>)
    \o (IF qp.order_by # <<>> THEN <<"ORDER BY " \o StrJoin(", ", qp.order_by)>> ELSE <<>>)
    \o (IF qp.where # <<>> THEN <<"WHERE " \o StrJoin(" AND ", qp.where)>> ELSE <<>>)
    \o (IF qp.group_by # <<>> THEN <<"GROUP BY " \o StrJoin(", ", qp.group_by)>> ELSE <<>>)
    \o (IF qp.having # <<>> THEN <<"HAVING " \o StrJoin(" AND ", qp.having)>> ELSE <<>>)
    \o (IF TruthyOptStr(qp.limit) THEN <<qp.limit[1]>> ELSE <<>>)

\* build() with every block emitted, also for an empty list
BuildParts_no_omission(qp) ==
    <<"SELECT " \o StrOr(StrJoin(", ", qp.select), "*")>>
    \o (IF qp.from # "" THEN <<"FROM " \o qp.from>> ELSE <<>>)
    \o (IF qp.joins # <<>> THEN qp.joins ELSE <<>>)
    \o <<"WHERE " \o StrJoin(" AND ", qp.where)>>
    \o <<"GROUP BY " \o StrJoin(", ", qp.group_by)>>
    \o (IF qp.having # <<>> THEN <<"HAVING " \o StrJoin(" AND ", qp.having)>> ELSE <<>>)
    \o <<"ORDER BY " \o StrJoin(", ", qp.order_by)>>
    \o (IF TruthyOptStr(qp.limit) THEN <<qp.limit[1]>> ELSE <<>>)

\* the list 'parts' that build() assembles
BuildParts(qp) ==
    <<"SELECT " \o StrOr(StrJoin(", ", qp.select), "*")>>
    \o (IF qp.from # "" THEN <<"FROM " \o qp.from>> ELSE <<>>)
    \o (IF qp.joins # <<>> THEN qp.joins ELSE <<>>)
    \o (IF qp.where # <<>> THEN <<"WHERE " \o StrJoin(" AND ", qp.where)>> ELSE <<>>)
    \o (IF qp.group_by # <<>> THEN <<"GROUP BY " \o StrJoin(", ", qp.group_by)>> ELSE <<>>)
    \o (IF qp.having # <<>> THEN <<"HAVING " \o StrJoin(" AND ", qp.having)>> ELSE <<>>)
    \o (IF qp.order_by # <<>> THEN <<"ORDER BY " \o StrJoin(", ", qp.order_by)>> ELSE <<>>)
    \o (IF TruthyOptStr(qp.limit) THEN <<qp.limit[1]>> ELSE <<>>)

\* the string build() returns
BuildString(qp) == StrJoin(" ", BuildParts(qp))

\* build() that ends by clearing the builder
BuildState_consuming(qp) == NewQueryParts

\* the state build() leaves: it reads query_parts and writes only its local list
BuildState(qp) == qp

\* reset() that empties the lists and leaves the limit
reset_keeps_limit(qp) == [NewQueryParts EXCEPT !.limit = qp.limit]

\* reset(): self.__init__()
reset(qp) == NewQueryParts

\* ------------------------------------------------------------------------
\* The calls the model makes on the builder
\* ------------------------------------------------------------------------

\* select('x'), select('id', 'name'), select('')
SelectArgs == { <<"x">>, <<"id", "name">>, <<"">> }

\* <<table, alias>>
FromArgs == { <<"users", None>>, <<"t", None>>, <<"users", Some("u")>> }

\* <<table, on_condition, join_type, alias>>
JoinArgs ==
    { <<"orders", "u.id = o.uid", None, None>>,
      <<"orders", "u.id = o.uid", Some("LEFT"), Some("o")>> }

WhereArgs == { "active = 1", "role = 2" }

\* having('n > 1')
HavingArgs == { "n > 1" }

\* group_by(), group_by('x')
GroupByArgs == { <<>>, <<"x">> }

\* <<column, direction>>
OrderByArgs == { <<"id", Some("DESC")>>, <<"x", None>> }

\* <<count, offset>>
LimitArgs == { <<5, None>>, <<5, Some(0)>>, <<10, Some(20)>> }

\* ------------------------------------------------------------------------
\* Actions: one per method of DynamicSQLBuilder
\* ------------------------------------------------------------------------

Select ==
    /\ NumCalls < MaxCalls
    /\ \E columns \in SelectArgs :
        /\ query_parts' = select(query_parts, columns)
        /\ calls' = [calls EXCEPT !.select = Append(@, columns)]
    /\ lastOp' = "mutate"
    /\ dropped' = 0
    /\ built' = None
    /\ UNCHANGED <<tvars, gvars>>

FromTable ==
    /\ NumCalls < MaxCalls
    /\ \E a \in FromArgs :
        /\ query_parts' = from_table(query_parts, a[1], a[2])
        /\ calls' = [calls EXCEPT !.from_table = Append(@, a)]
    /\ lastOp' = "mutate"
    /\ dropped' = 0
    /\ built' = None
    /\ UNCHANGED <<tvars, gvars>>

Join ==
    /\ NumCalls < MaxCalls
    /\ \E a \in JoinArgs :
        /\ query_parts' = join(query_parts, a[1], a[2], a[3], a[4])
        /\ calls' = [calls EXCEPT !.join = Append(@, a)]
    /\ lastOp' = "mutate"
    /\ dropped' = 0
    /\ built' = None
    /\ UNCHANGED <<tvars, gvars>>

Where ==
    /\ NumCalls < MaxCalls
    /\ \E condition \in WhereArgs :
        /\ query_parts' = where(query_parts, condition)
        /\ calls' = [calls EXCEPT !.where = Append(@, condition)]
    /\ lastOp' = "mutate"
    /\ dropped' = 0
    /\ built' = None
    /\ UNCHANGED <<tvars, gvars>>

GroupBy ==
    /\ NumCalls < MaxCalls
    /\ \E columns \in GroupByArgs :
        /\ query_parts' = group_by(query_parts, columns)
        /\ calls' = [calls EXCEPT !.group_by = Append(@, columns)]
    /\ lastOp' = "mutate"
    /\ dropped' = 0
    /\ built' = None
    /\ UNCHANGED <<tvars, gvars>>

OrderBy ==
    /\ NumCalls < MaxCalls
    /\ \E a \in OrderByArgs :
        /\ query_parts' = order_by(query_parts, a[1], a[2])
        /\ calls' = [calls EXCEPT !.order_by = Append(@, a)]
    /\ lastOp' = "mutate"
    /\ dropped' = 0
    /\ built' = None
    /\ UNCHANGED <<tvars, gvars>>

Limit ==
    /\ NumCalls < MaxCalls
    /\ \E a \in LimitArgs :
        /\ query_parts' = limit(query_parts, a[1], a[2])
        /\ calls' = [calls EXCEPT !.limit = Append(@, a)]
    /\ lastOp' = "mutate"
    /\ dropped' = 0
    /\ built' = None
    /\ UNCHANGED <<tvars, gvars>>

Build ==
    /\ built' = Some(BuildString(query_parts))
    /\ query_parts' = BuildState(query_parts)
    /\ lastOp' = "build"
    /\ UNCHANGED <<calls, dropped>>
    /\ UNCHANGED <<tvars, gvars>>

Reset ==
    /\ query_parts' = reset(query_parts)
    /\ calls' = NoCalls
    /\ lastOp' = "reset"
    /\ dropped' = NumCalls
    /\ built' = None
    /\ UNCHANGED <<tvars, gvars>>

Next ==
    \/ Select
    \/ FromTable
    \/ Join
    \/ Where
    \/ GroupBy
    \/ OrderBy
    \/ Limit
    \/ Build
    \/ Reset

Spec == Init /\ [][Next]_vars

\* ------------------------------------------------------------------------
\* The builder under further calls: having, the join types of JoinType, and an
\* empty table reference
\* ------------------------------------------------------------------------

\* the enumeration JoinType of sql_generator.py: member name -> value
JoinType ==
    [ INNER |-> "INNER JOIN",
      LEFT  |-> "LEFT JOIN",
      RIGHT |-> "RIGHT JOIN",
      FULL  |-> "FULL OUTER JOIN" ]

\* the calls of JoinArgs and one call for each remaining member of JoinType
JoinKindArgs ==
    JoinArgs \cup { <<"orders", "u.id = o.uid", Some(k), None>> : k \in {"RIGHT", "FULL"} }

\* the calls of FromArgs and from_table('')
FromEdgeArgs == FromArgs \cup { <<"", None>> }

Having ==
    /\ NumCalls < MaxCalls
    /\ \E condition \in HavingArgs :
        /\ query_parts' = having(query_parts, condition)
        /\ calls' = [calls EXCEPT !.having = Append(@, condition)]
    /\ lastOp' = IF getattr("having") = None THEN "mutate" ELSE "error"
    /\ dropped' = 0
    /\ built' = None
    /\ UNCHANGED <<tvars, gvars>>

JoinKind ==
    /\ NumCalls < MaxCalls
    /\ \E a \in JoinKindArgs :
        /\ query_parts' = join(query_parts, a[1], a[2], a[3], a[4])
        /\ calls' = [calls EXCEPT !.join = Append(@, a)]
    /\ lastOp' = "mutate"
    /\ dropped' = 0
    /\ built' = None
    /\ UNCHANGED <<tvars, gvars>>

FromTableEdge ==
    /\ NumCalls < MaxCalls
    /\ \E a \in FromEdgeArgs :
        /\ query_parts' = from_table(query_parts, a[1], a[2])
        /\ calls' = [calls EXCEPT !.from_table = Append(@, a)]
    /\ lastOp' = "mutate"
    /\ dropped' = 0
    /\ built' = None
    /\ UNCHANGED <<tvars, gvars>>

EdgeNext ==
    \/ FromTableEdge
    \/ JoinKind
    \/ GroupBy
    \/ Having
    \/ OrderBy
    \/ Build
    \/ Reset

EdgeSpec == Init /\ [][EdgeNext]_vars

\* ------------------------------------------------------------------------
\* The template engine: string.Template.safe_substitute as generate_query uses it
\* ------------------------------------------------------------------------

\* add_template registers every pattern of at most this many characters
MaxPatLen == 3

CharAt(s, i) == SubSeq(s, i, i)

CharsOf(s) == { CharAt(s, i) : i \in 1..Len(s) }

\* the first character of Template.idpattern, [_a-z] under re.IGNORECASE
IdStartChars == CharsOf("_abcdefghijklmnopqrstuvwxyzABCDEFGHIJKLMNOPQRSTUVWXYZ")

\* the further characters of Template.idpattern, [_a-z0-9]
IdChars == IdStartChars \cup CharsOf("0123456789")

RECURSIVE IdEnd(_, _)
\* the last position of the longest identifier that starts at position i
IdEnd(s, i) ==
    IF i < Len(s) /\ CharAt(s, i + 1) \in IdChars THEN IdEnd(s, i + 1) ELSE i

\* the match of Template.pattern at a '$' at position i: the group that matched,
\* the identifier it holds and the position of the last character of the match
MatchAt(s, i) ==
    LET c1 == IF i < Len(s) THEN CharAt(s, i + 1) ELSE ""
        c2 == IF i + 1 < Len(s) THEN CharAt(s, i + 2) ELSE ""
    IN  IF c1 = "$" THEN
            [group |-> "escaped", name |-> "", end |-> i + 1]
        ELSE IF c1 \in IdStartChars THEN
            [group |-> "named", name |-> SubSeq(s, i + 1, IdEnd(s, i + 1)),
             end |-> IdEnd(s, i + 1)]
        ELSE IF /\ c1 = "{"
                /\ c2 \in IdStartChars
                /\ IdEnd(s, i + 2) < Len(s)
                /\ CharAt(s, IdEnd(s, i + 2) + 1) = "}" THEN
            [group |-> "braced", name |-> SubSeq(s, i + 2, IdEnd(s, i + 2)),
             end |-> IdEnd(s, i + 2) + 1]
        ELSE
            [group |-> "invalid", name |-> "", end |-> i]

\* a value of the variables mapping: a str or an int
StrVal(x) == [type |-> "str", val |-> x]

IntVal(n) == [type |-> "int", val |-> n]

\* str(value)
PyStr(v) == IF v.type = "int" THEN IntStr(v.val) ELSE v.val

\* convert() with a placeholder that has no key replaced by the empty string
convert_blank_missing(s, i, m, mapping) ==
    IF m.group \in {"named", "braced"} THEN
        IF m.name \in DOMAIN mapping THEN PyStr(mapping[m.name]) ELSE ""
    ELSE IF m.group = "escaped" THEN "$"
    ELSE SubSeq(s, i, m.end)

\* convert() that looks up $name and leaves ${name} as it is
convert_named_only(s, i, m, mapping) ==
    IF m.group = "named" THEN
        IF m.name \in DOMAIN mapping THEN PyStr(mapping[m.name]) ELSE SubSeq(s, i, m.end)
    ELSE IF m.group = "escaped" THEN "$"
    ELSE SubSeq(s, i, m.end)

\* convert(mo) of safe_substitute: the text that replaces the match m at position i
convert(s, i, m, mapping) ==
    IF m.group \in {"named", "braced"} THEN
        IF m.name \in DOMAIN mapping THEN PyStr(mapping[m.name]) ELSE SubSeq(s, i, m.end)
    ELSE IF m.group = "escaped" THEN "$"
    ELSE SubSeq(s, i, m.end)

RECURSIVE SubFrom(_, _, _)
\* pattern.sub(convert, template) from position i on: one pass, left to right
SubFrom(s, i, mapping) ==
    IF i > Len(s) THEN ""
    ELSE IF CharAt(s, i) # "$" THEN CharAt(s, i) \o SubFrom(s, i + 1, mapping)
    ELSE convert(s, i, MatchAt(s, i), mapping) \o SubFrom(s, MatchAt(s, i).end + 1, mapping)

\* safe_substitute() that substitutes again in the text the first pass returned
safe_substitute_rescan(template, mapping) ==
    SubFrom(SubFrom(template, 1, mapping), 1, mapping)

\* Template(template).safe_substitute(**mapping)
safe_substitute(template, mapping) == SubFrom(template, 1, mapping)

\* generate_query() that renders the empty template for a name it does not know
generate_query_lenient(ts, template_name, variables) ==
    IF template_name \notin DOMAIN ts THEN
        [raised |-> None, value |-> Some(safe_substitute("", variables))]
    ELSE
        [raised |-> None, value |-> Some(safe_substitute(ts[template_name], variables))]

\* generate_query(template_name, variables)
generate_query(ts, template_name, variables) ==
    IF template_name \notin DOMAIN ts THEN
        [raised |-> Some("ValueError"), value |-> None]
    ELSE
        [raised |-> None, value |-> Some(safe_substitute(ts[template_name], variables))]

\* add_template() that keeps the pattern of a name already registered
add_template_keep(ts, name, template_string) ==
    [n \in DOMAIN ts \cup {name} |-> IF n \in DOMAIN ts THEN ts[n] ELSE template_string]

\* add_template(name, template_string)
add_template(ts, name, template_string) ==
    [n \in DOMAIN ts \cup {name} |-> IF n = name THEN template_string ELSE ts[n]]

\* ------------------------------------------------------------------------
\* The calls the model makes on the template engine
\* ------------------------------------------------------------------------

PatternChars == {"$", "{", "}", "a"}

RECURSIVE PatternsOfLen(_)
PatternsOfLen(n) ==
    IF n = 0 THEN {""}
    ELSE { p \o c : p \in PatternsOfLen(n - 1), c \in PatternChars }

\* every string of at most MaxPatLen pattern characters
Patterns == UNION { PatternsOfLen(n) : n \in 0..MaxPatLen }

\* longer patterns: the braced form, two placeholders, a '$' that starts none
LongPatterns == { "${a}", "$a ${aa}", "${a}$a", "${$a}", "${a", "$$a $a" }

NoVariables == [k \in {} |-> StrVal("")]

\* <<name, template_string>>
AddArgs ==
    ({"custom"} \X (Patterns \cup LongPatterns))
        \cup ({"basic_select"} \X {"SELECT ${columns} FROM $table LIMIT 1", "$$"})

\* <<template_name, variables>>: the built-in templates with all, some and none of
\* their placeholders given, a str value that looks like a placeholder, int values
BuiltinGenerateArgs ==
    { <<"basic_select", [columns |-> StrVal("id, name"), table |-> StrVal("users")]>>,
      <<"basic_select", [table |-> StrVal("users")]>>,
      <<"basic_select", [columns |-> StrVal("$table"), table |-> StrVal("users")]>>,
      <<"filtered_select", [columns |-> StrVal("id, name, email"), table |-> StrVal("users"),
                            conditions |-> StrVal("active = 1 AND role = 'admin'")]>>,
      <<"paginated_select", [columns |-> StrVal("*"), table |-> StrVal("users"),
                             order_by |-> StrVal("id"), limit |-> IntVal(10),
                             offset |-> IntVal(0)]>>,
      <<"create_index", NoVariables>> }

\* variables for the patterns of add_template
CustomVariables ==
    { NoVariables,
      [a |-> StrVal("x")],
      [a |-> StrVal("$a")],
      [a |-> StrVal("x"), aa |-> StrVal("${a}")] }

\* <<template_name, variables>>
GenerateArgs ==
    BuiltinGenerateArgs \cup ({"custom", "missing"} \X CustomVariables)

\* ------------------------------------------------------------------------
\* Actions: one per method of SQLTemplateEngine
\* ------------------------------------------------------------------------

GenerateQuery ==
    /\ \E a \in GenerateArgs :
        /\ tresult' = generate_query(templates, a[1], a[2])
        /\ tcall' = [op |-> "generate_query", name |-> a[1], pattern |-> "",
                     variables |-> a[2]]
    /\ UNCHANGED <<templates, added>>
    /\ UNCHANGED <<bvars, gvars>>

AddTemplate ==
    /\ \E a \in AddArgs :
        /\ templates' = add_template(templates, a[1], a[2])
        /\ added' = [n \in DOMAIN added \cup {a[1]} |->
                        IF n = a[1] THEN a[2] ELSE added[n]]
        /\ tcall' = [op |-> "add_template", name |-> a[1], pattern |-> a[2],
                     variables |-> NoVariables]
    /\ tresult' = NoResult
    /\ UNCHANGED <<bvars, gvars>>

TemplateNext ==
    \/ GenerateQuery
    \/ AddTemplate

TemplateSpec == Init /\ [][TemplateNext]_vars

\* ------------------------------------------------------------------------
\* The variation generators: SQLVariationEngine (advanced_sql_generator.py) and
\* SQLVariationGenerator (sql_generator.py)
\* ------------------------------------------------------------------------

\* the longest list of join configs the model passes
MaxJoins == 2

\* a call that returns x
Return(x) == [raised |-> None, value |-> Some(x)]

\* a call that ends in the exception e
Raise(e) == [raised |-> Some(e), value |-> None]

\* config.get(key, default)
Get(config, key, default) == IF key \in DOMAIN config THEN config[key] ELSE default

\* ', '.join(['?' for _ in columns])
Placeholders(columns) == StrJoin(", ", [i \in 1..Len(columns) |-> "?"])

\* SQLVariationEngine.generate_crud_variations(config)
generate_crud_variations(config) ==
    IF "table" \notin DOMAIN config THEN Raise("KeyError")
    ELSE
        LET table == config["table"]
            columns == Get(config, "columns", <<>>)
            pk_column == Get(config, "primary_key", "id")
            column_list == StrJoin(", ", columns)
            placeholders == Placeholders(columns)
            set_clause == StrJoin(", ", [i \in 1..Len(columns) |-> columns[i] \o " = ?"])
        IN  Return(
              [ select |->
                  << "SELECT * FROM " \o table,
                     "SELECT " \o StrJoin(", ", columns) \o " FROM " \o table,
                     "SELECT COUNT(*) FROM " \o table,
                     "SELECT * FROM " \o table \o " ORDER BY " \o pk_column \o " DESC LIMIT 10",
                     IF columns # <<>>
                     THEN "SELECT DISTINCT " \o columns[1] \o " FROM " \o table
                     ELSE "SELECT * FROM " \o table >>,
                insert |->
                  IF columns # <<>>
                  THEN << "INSERT INTO " \o table \o " (" \o column_list \o ") VALUES ("
                              \o placeholders \o ")",
                          "INSERT OR IGNORE INTO " \o table \o " (" \o column_list
                              \o ") VALUES (" \o placeholders \o ")",
                          "INSERT INTO " \o table \o " (" \o column_list \o ") SELECT "
                              \o column_list \o " FROM temp_" \o table >>
                  ELSE <<>>,
                update |->
                  IF columns # <<>>
                  THEN << "UPDATE " \o table \o " SET " \o set_clause \o " WHERE "
                              \o pk_column \o " = ?",
                          "UPDATE " \o table \o " SET " \o columns[1] \o " = ? WHERE "
                              \o pk_column \o " IN (SELECT " \o pk_column
                              \o " FROM temp_ids)" >>
                  ELSE <<>>,
                delete |->
                  << "DELETE FROM " \o table \o " WHERE " \o pk_column \o " = ?",
                     "DELETE FROM " \o table \o " WHERE created_at < ?",
                     "DELETE FROM " \o table \o " WHERE " \o pk_column \o " IN (?, ?, ?)" >> ])

RECURSIVE JoinQueries(_, _)
\* the loop of generate_join_variations over join_configs
JoinQueries(main_table, join_configs) ==
    IF join_configs = <<>> THEN Return(<<>>)
    ELSE
        LET join_config == Head(join_configs)
        IN  IF "table" \notin DOMAIN join_config \/ "on" \notin DOMAIN join_config
            THEN Raise("KeyError")
            ELSE
                LET join_table == join_config["table"]
                    on_condition == join_config["on"]
                    join_type == Get(join_config, "type", "INNER")
                    tail == " FROM " \o main_table \o " " \o join_type \o " JOIN "
                                \o join_table \o " ON " \o on_condition
                    rest == JoinQueries(main_table, Tail(join_configs))
                IN  IF rest.raised # None THEN rest
                    ELSE Return(
                           << "SELECT *" \o tail,
                              "SELECT " \o main_table \o ".*, " \o join_table \o ".name" \o tail,
                              "SELECT COUNT(*)" \o tail >> \o rest.value[1])

\* SQLVariationEngine.generate_join_variations(config)
generate_join_variations(config) ==
    IF "main_table" \notin DOMAIN config \/ "joins" \notin DOMAIN config
    THEN Raise("KeyError")
    ELSE JoinQueries(config["main_table"], config["joins"])

\* f"{k} = '{v}'" if isinstance(v, str) else f"{k} = {v}", for an item <<k, v>>
Assignment(item) ==
    IF item[2].type = "str" THEN item[1] \o " = '" \o item[2].val \o "'"
    ELSE item[1] \o " = " \o PyStr(item[2])

\* the line break and indentation inside the triple-quoted strings
Indent == "\n                            "

\* SQLVariationGenerator.generate_update_variations(table, data, conditions); a dict
\* is the sequence of its items <<key, value>> in insertion order
generate_update_variations(table, data, conditions) ==
    LET set_clause == StrJoin(", ", [i \in 1..Len(data) |-> Assignment(data[i])])
        where_clause ==
            StrJoin(" AND ", [i \in 1..Len(conditions) |-> Assignment(conditions[i])])
    IN  IF data = <<>> THEN Raise("IndexError")
        ELSE Return(
               << "UPDATE " \o table \o " SET " \o set_clause \o " WHERE " \o where_clause,
                  "UPDATE " \o table \o " t1 " \o Indent
                      \o "JOIN other_table t2 ON t1.id = t2.ref_id " \o Indent
                      \o "SET " \o set_clause \o " " \o Indent
                      \o "WHERE " \o where_clause,
                  "UPDATE " \o table \o " " \o Indent
                      \o "SET " \o data[1][1]
                      \o " = (SELECT value FROM lookup_table WHERE id = " \o table
                      \o ".lookup_id) " \o Indent
                      \o "WHERE " \o where_clause >>)

\* ------------------------------------------------------------------------
\* The calls the model makes on the variation generators
\* ------------------------------------------------------------------------

\* the dict d with only the keys ks
Restrict(d, ks) == [k \in ks |-> d[k]]

\* every dict that carries some of the keys of d
Partial(d) == { Restrict(d, ks) : ks \in SUBSET (DOMAIN d) }

ColumnLists == { <<>>, <<"name">>, <<"name", "price">> }

CrudConfigs ==
    UNION { Partial([table |-> "users", columns |-> c, primary_key |-> "uid"]) :
                c \in ColumnLists }

JoinConfigs == Partial([table |-> "orders", on |-> "users.id = orders.user_id", type |-> "LEFT"])

JoinLists == UNION { [1..n -> JoinConfigs] : n \in 0..MaxJoins }

JoinVariationConfigs ==
    UNION { Partial([main_table |-> "users", joins |-> js]) : js \in JoinLists }

\* <<table, data, conditions>>
UpdateArgs ==
    {"orders"}
        \X { <<>>,
             << <<"status", StrVal("shipped")>> >>,
             << <<"status", StrVal("shipped")>>, <<"updated_at", StrVal("NOW()")>> >>,
             << <<"qty", IntVal(3)>> >> }
        \X { <<>>, << <<"id", IntVal(123)>> >> }

\* ------------------------------------------------------------------------
\* Actions: one per modelled method of the variation generators
\* ------------------------------------------------------------------------

GenerateCrudVariations ==
    /\ \E config \in CrudConfigs :
        /\ vcall' = [op |-> "generate_crud_variations", args |-> <<config>>]
        /\ vresult' = generate_crud_variations(config)
    /\ UNCHANGED <<bvars, tvars>>

GenerateJoinVariations ==
    /\ \E config \in JoinVariationConfigs :
        /\ vcall' = [op |-> "generate_join_variations", args |-> <<config>>]
        /\ vresult' = generate_join_variations(config)
    /\ UNCHANGED <<bvars, tvars>>

GenerateUpdateVariations ==
    /\ \E a \in UpdateArgs :
        /\ vcall' = [op |-> "generate_update_variations", args |-> a]
        /\ vresult' = generate_update_variations(a[1], a[2], a[3])
    /\ UNCHANGED <<bvars, tvars>>

VariationNext ==
    \/ GenerateCrudVariations
    \/ GenerateJoinVariations
    \/ GenerateUpdateVariations

VariationSpec == Init /\ [][VariationNext]_vars

\* ------------------------------------------------------------------------
\* Properties of the builder
\* ------------------------------------------------------------------------

RECURSIVE Flatten(_)
\* all arguments of a sequence of variadic calls, in call order
Flatten(argLists) ==
    IF argLists = <<>> THEN <<>> ELSE Head(argLists) \o Flatten(Tail(argLists))

Last(xs) == xs[Len(xs)]

\* the positions at which sub occurs in s
Positions(s, sub) ==
    { i \in 1..(Len(s) - Len(sub) + 1) : SubSeq(s, i, i + Len(sub) - 1) = sub }

StartsWith(s, sub) == Len(sub) <= Len(s) /\ SubSeq(s, 1, Len(sub)) = sub

\* the clause keywords in the order the specification fixes
ClauseKeywords ==
    <<"SELECT ", "FROM ", " JOIN ", "WHERE ", "GROUP BY ", "HAVING ", "ORDER BY ", "LIMIT ">>

\* every occurrence of an earlier keyword lies before every occurrence of a later one
KeywordsInOrder(s) ==
    \A pos \in { [k \in 1..Len(ClauseKeywords) |-> Positions(s, ClauseKeywords[k])] } :
        \A i, j \in 1..Len(ClauseKeywords) :
            i < j => \A p \in pos[i] : \A q \in pos[j] : p < q

\* no call since the last reset passed an empty fragment to select or where
NoEmptyFragment ==
    /\ \A i \in 1..Len(calls.where) : calls.where[i] # ""
    /\ \A i \in 1..Len(Flatten(calls.select)) : Flatten(calls.select)[i] # ""

\* a join clause as the specification words it: kind, table, optional alias, condition
JoinText(a) ==
    (IF a[3] = None THEN "INNER" ELSE a[3][1]) \o " JOIN " \o a[1]
        \o (IF a[4] = None THEN "" ELSE " " \o a[4][1]) \o " ON " \o a[2]

\* select('id','name'), from_table('users'), where('active = 1'),
\* order_by('id','DESC'), limit(5) and nothing else since the last reset
ExampleCalls ==
    [ select     |-> << <<"id", "name">> >>,
      from_table |-> << <<"users", None>> >>,
      join       |-> <<>>,
      where      |-> <<"active = 1">>,
      group_by   |-> <<>>,
      having     |-> <<>>,
      order_by   |-> << <<"id", Some("DESC")>> >>,
      limit      |-> << <<5, None>> >> ]

\* C1: whatever the order of the mutator calls, build() emits the clauses in the
\* order SELECT, FROM, joins (in append order), WHERE, GROUP BY, HAVING, ORDER BY,
\* LIMIT, separated by single spaces, and the call sequence of the specification's
\* example yields exactly its string.
C1_ClauseOrder ==
    built # None =>
        /\ StartsWith(built[1], "SELECT ")
        /\ KeywordsInOrder(built[1])
        /\ Contains(built[1],
                    StrJoin(" ", [i \in 1..Len(calls.join) |-> JoinText(calls.join[i])]))
        /\ NoEmptyFragment =>
              /\ ~Contains(built[1], "  ")
              /\ ~StartsWith(built[1], " ")
              /\ ~EndsWith(built[1], " ")
        /\ calls = ExampleCalls =>
              built[1] = "SELECT id, name FROM users WHERE active = 1 ORDER BY id DESC LIMIT 5"

\* the example of C1 was built
C1_Witness == built # None /\ calls = ExampleCalls

\* C2: the where fragments since the last reset appear in build()'s result as
\* "WHERE c1 AND c2 AND ... AND cn", in call order, whatever other mutators ran.
C2_WhereOrder ==
    (built # None /\ calls.where # <<>>) =>
        Contains(built[1], "WHERE " \o StrJoin(" AND ", calls.where))

\* three fragments, interleaved with another mutator, were built
C2_Witness ==
    /\ built # None
    /\ calls.where = <<"role = 2", "active = 1", "role = 2">>
    /\ calls.select # <<>>

RECURSIVE Replay(_, _)
Replay(qp, cs) ==
    IF cs.select # <<>> THEN
        Replay(select(qp, Head(cs.select)), [cs EXCEPT !.select = Tail(@)])
    ELSE IF cs.from_table # <<>> THEN
        Replay(from_table(qp, Head(cs.from_table)[1], Head(cs.from_table)[2]),
               [cs EXCEPT !.from_table = Tail(@)])
    ELSE IF cs.join # <<>> THEN
        Replay(join(qp, Head(cs.join)[1], Head(cs.join)[2], Head(cs.join)[3], Head(cs.join)[4]),
               [cs EXCEPT !.join = Tail(@)])
    ELSE IF cs.where # <<>> THEN
        Replay(where(qp, Head(cs.where)), [cs EXCEPT !.where = Tail(@)])
    ELSE IF cs.group_by # <<>> THEN
        Replay(group_by(qp, Head(cs.group_by)), [cs EXCEPT !.group_by = Tail(@)])
    ELSE IF cs.order_by # <<>> THEN
        Replay(order_by(qp, Head(cs.order_by)[1], Head(cs.order_by)[2]),
               [cs EXCEPT !.order_by = Tail(@)])
    ELSE IF cs.limit # <<>> THEN
        Replay(limit(qp, Head(cs.limit)[1], Head(cs.limit)[2]),
               [cs EXCEPT !.limit = Tail(@)])
    ELSE qp

\* C4: build() changes no component of the builder state; a second build() right
\* after a first returns the same string, and the state a build() sees is that of
\* the mutator calls alone, wherever earlier build() calls were inserted.
C4_BuildReadOnly ==
    [][lastOp' = "build" =>
          /\ query_parts' = query_parts
          /\ lastOp = "build" => built' = built
          /\ query_parts' = Replay(NewQueryParts, calls')]_vars

\* a build() of a builder that holds accumulated fragments
C4_Witness == lastOp = "build" /\ NumCalls >= 3 /\ query_parts.where # <<>>

\* C5: after reset() the state is that of a new builder, whatever preceded, and
\* build() then yields "SELECT *", as it does on a builder never mutated.
C5_Reset ==
    /\ lastOp = "reset" => query_parts = NewQueryParts
    /\ (lastOp = "build" /\ calls = NoCalls) => built = Some("SELECT *")

\* a build() right after a reset() that discarded a full builder
C5_Witness == lastOp = "build" /\ calls = NoCalls /\ dropped = MaxCalls

\* "LIMIT n OFFSET m" for a given offset, "LIMIT n" for none
LimitText(n, m) ==
    "LIMIT " \o IntStr(n) \o (IF m = None THEN "" ELSE " OFFSET " \o IntStr(m[1]))

\* C10: the last limit call alone is rendered, as "LIMIT n OFFSET m" when it gave
\* an offset m and as "LIMIT n" with no OFFSET keyword when it gave none.
C10_Limit ==
    (built # None /\ calls.limit # <<>>) =>
        LET n == Last(calls.limit)[1]
            m == Last(calls.limit)[2]
        IN  /\ Positions(built[1], "LIMIT ") = {Len(built[1]) - Len(LimitText(n, m)) + 1}
            /\ EndsWith(built[1], LimitText(n, m))
            /\ m = None => ~Contains(built[1], "OFFSET")

\* C11: a call of having(condition) is accepted like a call of where; build()
\* then holds the clause "HAVING h1 AND ... AND hn" with the fragments of the having
\* calls since the last reset in call order, after GROUP BY and before ORDER BY, and
\* holds no HAVING clause only when no having call was made
C11_Having ==
    /\ calls.having # <<>> => lastOp # "error"
    /\ built # None =>
        LET text == "HAVING " \o StrJoin(" AND ", calls.having)
        IN  /\ calls.having # <<>> <=> Contains(built[1], "HAVING ")
            /\ calls.having # <<>> =>
                /\ Contains(built[1], text)
                /\ \A p \in Positions(built[1], "HAVING ") :
                    /\ \A q \in Positions(built[1], "GROUP BY ") : q < p
                    /\ \A q \in Positions(built[1], "ORDER BY ") : p < q

\* s holds the keyword kw exactly once, followed by text and then by the end of s
\* or a space
ClauseIs(s, kw, text) ==
    \A ps \in { Positions(s, kw) } :
        /\ Cardinality(ps) = 1
        /\ \A p \in ps :
            LET q == p + Len(kw) + Len(text)
            IN  /\ q <= Len(s) + 1
                /\ SubSeq(s, p + Len(kw), q - 1) = text
                /\ q <= Len(s) => SubSeq(s, q, q) = " "

\* the entry order_by appends for the call a = <<column, direction>>
OrderText(a) == a[1] \o " " \o (IF a[2] = None THEN "ASC" ELSE a[2][1])

\* the GROUP BY and ORDER BY lists of build()'s result are the arguments of the
\* group_by and order_by calls since the last reset, in call order
ListsAccumulate ==
    LET groups == Flatten(calls.group_by)
        orders == [i \in 1..Len(calls.order_by) |-> OrderText(calls.order_by[i])]
    IN  /\ groups # <<>> => ClauseIs(built[1], "GROUP BY ", StrJoin(", ", groups))
        /\ orders # <<>> => ClauseIs(built[1], "ORDER BY ", StrJoin(", ", orders))

FromText(a) == a[1] \o (IF a[2] = None THEN "" ELSE " " \o a[2][1])

\* build()'s result holds one FROM clause, that of the last from_table call, and
\* the alias of no earlier call behind it
LastFromOnly ==
    LET a == Last(calls.from_table)
    IN  /\ ClauseIs(built[1], "FROM ", FromText(a))
        /\ \A i \in 1..(Len(calls.from_table) - 1) :
              (a[2] = None /\ calls.from_table[i][2] # None) =>
                  ~Contains(built[1], "FROM " \o a[1] \o " " \o calls.from_table[i][2][1])

JoinClause(a) ==
    JoinType[IF a[3] = None THEN "INNER" ELSE a[3][1]] \o " " \o a[1]
        \o (IF a[4] = None THEN "" ELSE " " \o a[4][1]) \o " ON " \o a[2]

\* C12: build() emits one clause for each join call since the last reset, in call
\* order, and each clause starts with the keyword of its kind, one of "INNER JOIN",
\* "LEFT JOIN", "RIGHT JOIN", "FULL OUTER JOIN" ("INNER JOIN" when no kind was
\* given), followed by the table, the alias if one was given and "ON <condition>"
C12_JoinKeywords ==
    (built # None /\ calls.join # <<>>) =>
        /\ Contains(built[1],
                " " \o StrJoin(" ", [i \in 1..Len(calls.join) |-> JoinClause(calls.join[i])]))
        /\ \A i \in 1..Len(query_parts.joins) :
              \E name \in DOMAIN JoinType :
                  StartsWith(query_parts.joins[i], JoinType[name] \o " ")

\* C13: no operation other than generate_query for an unregistered name raises; a
\* call of a variation generator returns a result for every input of its declared
\* types, also for an empty column list, an empty data or condition mapping and a
\* config that carries only some of the keys
C13_OnlyTemplateError ==
    /\ vcall.op # "none" => vresult.raised = None /\ vresult.value # None
    /\ tresult.raised # None =>
          tcall.op = "generate_query" /\ tcall.name \notin DOMAIN templates

\* ------------------------------------------------------------------------
\* Properties of the template engine
\* ------------------------------------------------------------------------

RECURSIVE MatchesFrom(_, _)
\* the matches of Template.pattern in s from position i on, left to right
MatchesFrom(s, i) ==
    IF i > Len(s) THEN <<>>
    ELSE IF CharAt(s, i) # "$" THEN MatchesFrom(s, i + 1)
    ELSE <<[start |-> i, m |-> MatchAt(s, i)]>> \o MatchesFrom(s, MatchAt(s, i).end + 1)

IsPlaceholder(match) == match.m.group \in {"named", "braced"}

\* the names of the placeholders ($name or ${name}) of s
PlaceholderNames(s) ==
    LET ms == MatchesFrom(s, 1)
    IN  { ms[k].m.name : k \in { j \in 1..Len(ms) : IsPlaceholder(ms[j]) } }

\* the last call was generate_query for a registered name
Rendered == tcall.op = "generate_query" /\ tcall.name \in DOMAIN templates

\* the error the specification calls UnknownTemplateError
UnknownTemplateError == "ValueError"

\* C6: generate_query for a name that is not registered raises the unknown-template
\* error and returns no string, and leaves the templates as they were; for a
\* registered name it returns a string and does not raise.
C6_UnknownTemplate ==
    [][tcall'.op = "generate_query" =>
          /\ templates' = templates
          /\ tcall'.name \notin DOMAIN templates =>
                tresult' = [raised |-> Some(UnknownTemplateError), value |-> None]
          /\ tcall'.name \in DOMAIN templates =>
                (tresult'.raised = None /\ tresult'.value # None)]_vars

\* an unregistered name was rendered after templates had been added
C6_Witness ==
    /\ tcall.op = "generate_query"
    /\ tcall.name \notin DOMAIN templates
    /\ tresult.raised # None
    /\ "custom" \in DOMAIN templates

\* C7: a placeholder of a registered template whose name is no key of the variables
\* stays in the result as the token it was, between the results of the text before
\* it and of the text after it, and no error is raised.
C7_MissingKept ==
    Rendered =>
        /\ tresult.raised = None
        /\ \A t \in {templates[tcall.name]} : \A ms \in {MatchesFrom(t, 1)} :
              \A k \in 1..Len(ms) :
                  (IsPlaceholder(ms[k]) /\ ms[k].m.name \notin DOMAIN tcall.variables) =>
                      tresult.value[1] =
                          safe_substitute(SubSeq(t, 1, ms[k].start - 1), tcall.variables)
                              \o SubSeq(t, ms[k].start, ms[k].m.end)
                              \o safe_substitute(SubSeq(t, ms[k].m.end + 1, Len(t)),
                                                 tcall.variables)

\* a template was rendered with one of its placeholders given and another missing
C7_Witness ==
    /\ Rendered
    /\ PlaceholderNames(templates[tcall.name]) \cap DOMAIN tcall.variables # {}
    /\ PlaceholderNames(templates[tcall.name]) \ DOMAIN tcall.variables # {}
    /\ tresult.value # None

\* the result holds no placeholder whose name is a key of the variables
NoKeyRemains ==
    \A ms \in {MatchesFrom(tresult.value[1], 1)} :
        \A k \in 1..Len(ms) :
            IsPlaceholder(ms[k]) => ms[k].m.name \notin DOMAIN tcall.variables

\* C8 as stated: when the keys of the variables include every placeholder name of
\* the template, the result holds no $name token for any key, whatever the values.
C8_Original ==
    (Rendered /\ PlaceholderNames(templates[tcall.name]) \subseteq DOMAIN tcall.variables)
        => NoKeyRemains

\* every '$' of the pattern starts a placeholder: none is an escape or stands alone
OnlyPlaceholders(t) ==
    \A ms \in {MatchesFrom(t, 1)} : \A k \in 1..Len(ms) : IsPlaceholder(ms[k])

\* no value of the mapping holds a '$'
PlainValues(v) == \A k \in DOMAIN v : ~Contains(PyStr(v[k]), "$")

\* C8 (amended): when the keys of the variables include every placeholder name of
\* the template, no value holds a '$' and every '$' of the pattern starts a
\* placeholder, the result holds no $name token for any key (it holds no '$').
C8_NoKeyRemains ==
    ( /\ Rendered
      /\ PlaceholderNames(templates[tcall.name]) \subseteq DOMAIN tcall.variables
      /\ PlainValues(tcall.variables)
      /\ OnlyPlaceholders(templates[tcall.name]) )
        => (NoKeyRemains /\ ~Contains(tresult.value[1], "$"))

\* a template with placeholders in both forms was rendered with plain values for all
C8_Witness ==
    /\ Rendered
    /\ PlaceholderNames(templates[tcall.name]) \subseteq DOMAIN tcall.variables
    /\ PlainValues(tcall.variables)
    /\ OnlyPlaceholders(templates[tcall.name])
    /\ \E ms \in {MatchesFrom(templates[tcall.name], 1)} :
          /\ \E k \in 1..Len(ms) : ms[k].m.group = "named"
          /\ \E k \in 1..Len(ms) : ms[k].m.group = "braced"

\* C9: add_template does not fail and stores the pattern under the name, also over
\* a built-in or an earlier custom pattern; the other names keep their patterns,
\* and generate_query renders the pattern registered last for its name.
C9_AddTemplate ==
    [][/\ tcall'.op = "add_template" =>
            /\ tresult'.raised = None
            /\ DOMAIN templates' = DOMAIN templates \cup {tcall'.name}
            /\ templates'[tcall'.name] = tcall'.pattern
            /\ \A n \in DOMAIN templates \ {tcall'.name} : templates'[n] = templates[n]
       /\ (tcall'.op = "generate_query" /\ tcall'.name \in DOMAIN templates') =>
            tresult'.value =
                Some(safe_substitute(IF tcall'.name \in DOMAIN added'
                                        THEN added'[tcall'.name]
                                        ELSE BuiltinTemplates[tcall'.name],
                                     tcall'.variables))]_vars

\* a built-in name was rendered after add_template had replaced its pattern
C9_Witness ==
    /\ Rendered
    /\ tcall.name \in DOMAIN added
    /\ tcall.name \in DOMAIN BuiltinTemplates
    /\ added[tcall.name] # BuiltinTemplates[tcall.name]
    /\ tresult.value = Some(safe_substitute(added[tcall.name], tcall.variables))

RECURSIVE Fill(_, _, _, _)
\* the pattern t with its matches ms from the k-th on replaced, each once and from
\* left to right: a placeholder whose name is a key by the value, any other match
\* by its own text; the text between the matches is kept
Fill(t, ms, k, v) ==
    LET from == IF k = 1 THEN 1 ELSE ms[k - 1].m.end + 1
    IN  IF k > Len(ms) THEN SubSeq(t, from, Len(t))
        ELSE SubSeq(t, from, ms[k].start - 1)
                 \o (IF IsPlaceholder(ms[k]) /\ ms[k].m.name \in DOMAIN v
                     THEN PyStr(v[ms[k].m.name])
                     ELSE SubSeq(t, ms[k].start, ms[k].m.end))
                 \o Fill(t, ms, k + 1, v)

====
